---- MODULE Spec2Model ----
(***************************************************************************)
(* Model of the data path of data-scribe-ai-sync: FileService (parsing and *)
(* validation), DatabaseService (duplicate lookup and bulk insert) and the *)
(* ingestion run that composes them.                                       *)
(*                                                                         *)
(* A text is a sequence of one-character strings.  A cell value is a       *)
(* record tagged "str", "num" or "undef" (the values a JavaScript cell can *)
(* hold in the three parse paths).                                         *)
(***************************************************************************)
EXTENDS Integers, Sequences, FiniteSets, TLC

(***************************************************************************)
(* backend  which implementation of the store interface answers the        *)
(*          queries: "simulated" is executeQuery as the source has it,     *)
(*          "live" runs the query on the table                             *)
(* store    the rows of pim_product, in insertion order                    *)
(* queries  the number of queries issued so far                            *)
(* run      per run: its state, its intermediate values and what it has    *)
(*          passed to the resolver, the inserter and the store             *)
(* call     the last direct call of insertProducts or checkDuplicates:     *)
(*          argument, queries issued, result, store before the call        *)
(*                                                                         *)
(* fs       the last direct call of a FileService operation: its input and *)
(*          what it returned                                               *)
(* server   the HTTP server: connections of the pool that are checked out, *)
(*          those no handler will release, and the requests in progress    *)
(*                                                                         *)
(* A store failure (the exception executeQuery's catch branch answers) and *)
(* a FileReader error are inputs of the step they occur in.                *)
(***************************************************************************)
VARIABLES backend, store, queries, run, call, fs, server

vars == <<backend, store, queries, run, call, fs, server>>

----------------------------------------------------------------------------
(* Values and texts *)

Str(s) == [t |-> "str", s |-> s, n |-> 0]

Num(n) == [t |-> "num", s |-> <<>>, n |-> n]

Undef == [t |-> "undef", s |-> <<>>, n |-> 0]

\* JavaScript truthiness of a cell value: undefined, "" and 0 are falsy.
Falsy(v) == \/ v.t = "undef"
            \/ (v.t = "str" /\ v.s = <<>>)
            \/ (v.t = "num" /\ v.n = 0)

\* a || b
Or(a, b) == IF Falsy(a) THEN b ELSE a

IsSpace(c) == c \in {" ", "\t", "\r", "\n"}

RECURSIVE TrimStart(_)
TrimStart(s) == IF s = <<>> THEN s
                ELSE IF IsSpace(Head(s)) THEN TrimStart(Tail(s)) ELSE s

RECURSIVE TrimEnd(_)
TrimEnd(s) == IF s = <<>> THEN s
              ELSE IF IsSpace(s[Len(s)]) THEN TrimEnd(SubSeq(s, 1, Len(s) - 1)) ELSE s

\* String.prototype.trim
trim(s) == TrimEnd(TrimStart(s))

UpperChars == <<"A","B","C","D","E","F","G","H","I","J","K","L","M",
                "N","O","P","Q","R","S","T","U","V","W","X","Y","Z">>

LowerChars == <<"a","b","c","d","e","f","g","h","i","j","k","l","m",
                "n","o","p","q","r","s","t","u","v","w","x","y","z">>

LowerChar(c) == IF \E i \in 1..Len(UpperChars) : UpperChars[i] = c
                THEN LowerChars[CHOOSE i \in 1..Len(UpperChars) : UpperChars[i] = c]
                ELSE c

\* String.prototype.toLowerCase
toLowerCase(s) == [i \in 1..Len(s) |-> LowerChar(s[i])]

\* String.prototype.split on a one-character separator: always at least one
\* field; the empty text splits into one empty field.
RECURSIVE SplitFrom(_, _, _, _, _)
SplitFrom(s, d, i, cur, acc) ==
    IF i > Len(s) THEN Append(acc, cur)
    ELSE IF s[i] = d THEN SplitFrom(s, d, i + 1, <<>>, Append(acc, cur))
    ELSE SplitFrom(s, d, i + 1, Append(cur, s[i]), acc)

split(s, d) == SplitFrom(s, d, 1, <<>>, <<>>)

\* Array.prototype.slice(from, to) with 0-based from and exclusive to.
slice(s, from, to) ==
    SubSeq(s, from + 1, IF to < Len(s) THEN to ELSE Len(s))

----------------------------------------------------------------------------
(* FileService *)

PreviewRows == 10

\* getFileType: the text after the last '.', lower-cased, selects the path.
getFileType(fileName) ==
    LET parts == split(fileName, ".")
        extension == toLowerCase(parts[Len(parts)])
    IN  IF extension \in {<<"x","l","s","x">>, <<"x","l","s">>} THEN "excel"
        ELSE IF extension = <<"c","s","v">> THEN "csv"
        ELSE IF extension \in {<<"t","x","t">>, <<"t","s","v">>} THEN "text"
        ELSE "unknown"

\* parseCSVLine that ends a field at every comma, quoted or not.
parseCSVLine_EveryComma(line) ==
    LET unquoted == SelectSeq(line, LAMBDA ch : ch # "\"")
        parts == split(unquoted, ",")
    IN  [k \in 1..Len(parts) |-> trim(parts[k])]

\* parseCSVLine: one left-to-right scan; a quote toggles inQuotes and is not
\* emitted, a comma outside quotes ends the field, fields are trimmed.
RECURSIVE ParseCSVFrom(_, _, _, _, _)
ParseCSVFrom(line, i, current, inQuotes, result) ==
    IF i > Len(line) THEN Append(result, trim(current))
    ELSE IF line[i] = "\"" THEN ParseCSVFrom(line, i + 1, current, ~inQuotes, result)
    ELSE IF line[i] = "," /\ ~inQuotes
         THEN ParseCSVFrom(line, i + 1, <<>>, inQuotes, Append(result, trim(current)))
    ELSE ParseCSVFrom(line, i + 1, Append(current, line[i]), inQuotes, result)

parseCSVLine(line) == ParseCSVFrom(line, 1, <<>>, FALSE, <<>>)

Delimiters == <<"\t", ",", "|", ";", ":">>

\* detectDelimiter in which a later candidate that ties replaces the best one.
RECURSIVE DetectFromLastWins(_, _, _, _)
DetectFromLastWins(line, k, maxCount, bestDelimiter) ==
    IF k > 5 THEN bestDelimiter
    ELSE LET d == <<"\t", ",", "|", ";", ":">>[k]
             count == Len(split(line, d))
         IN  IF count >= maxCount
             THEN DetectFromLastWins(line, k + 1, count, d)
             ELSE DetectFromLastWins(line, k + 1, maxCount, bestDelimiter)

detectDelimiter_LastWins(line) == DetectFromLastWins(line, 1, 0, ",")

\* detectDelimiter: the candidate whose split gives the most fields; a later
\* candidate replaces the best one only when strictly better.
RECURSIVE DetectFrom(_, _, _, _)
DetectFrom(line, k, maxCount, bestDelimiter) ==
    IF k > Len(Delimiters) THEN bestDelimiter
    ELSE LET count == Len(split(line, Delimiters[k]))
         IN  IF count > maxCount
             THEN DetectFrom(line, k + 1, count, Delimiters[k])
             ELSE DetectFrom(line, k + 1, maxCount, bestDelimiter)

detectDelimiter(line) == DetectFrom(line, 1, 0, ",")

\* row[index] of a JavaScript array: undefined past the end.
At(row, i) == IF i \in 1..Len(row) THEN row[i] ELSE Undef

\* One preview object: obj[header] = row[index] for each header in order, so
\* a repeated header keeps the value of its last column.
PreviewObject(headers, row) ==
    [h \in {headers[i] : i \in 1..Len(headers)} |->
        At(row, CHOOSE i \in 1..Len(headers) :
                    /\ headers[i] = h
                    /\ \A j \in 1..Len(headers) : headers[j] = h => j <= i)]

\* A preview that takes every row.
Preview_AllRows(headers, rows) ==
    [k \in 1..Len(rows) |-> PreviewObject(headers, rows[k])]

Preview(headers, rows) ==
    LET first == slice(rows, 0, PreviewRows)
    IN  [k \in 1..Len(first) |-> PreviewObject(headers, first[k])]

NoData == [headers |-> <<>>, rows |-> <<>>, preview |-> <<>>, totalRows |-> 0,
           fileName |-> <<>>, fileType |-> "none"]

Resolved(data) == [ok |-> TRUE, data |-> data, error |-> "none"]

Rejected(error) == [ok |-> FALSE, data |-> NoData, error |-> error]

\* A line filter that discards only the empty line.
NonBlank_EmptyOnly(line) == line # <<>>

NonBlank(line) == trim(line) # <<>>

StrRow(fields) == [i \in 1..Len(fields) |-> Str(fields[i])]

\* processCSVFile that answers an empty table when no line is left.
processCSVFile_EmptyTable(file) ==
    LET lines == SelectSeq(split(file.text, "\n"), NonBlank)
        headers == IF lines = <<>> THEN <<>> ELSE StrRow(parseCSVLine(lines[1]))
        rows == [k \in 1..(Len(lines) - 1) |-> StrRow(parseCSVLine(lines[k + 1]))]
    IN  Resolved([headers |-> headers, rows |-> rows,
                  preview |-> Preview(headers, rows),
                  totalRows |-> Len(rows),
                  fileName |-> file.name, fileType |-> "csv"])

\* processCSVFile, the reader.onload handler.  With no non-blank line,
\* lines[0] is undefined and parseCSVLine throws on line.length.
processCSVFile(file) ==
    LET lines == SelectSeq(split(file.text, "\n"), NonBlank)
    IN  IF lines = <<>> THEN Rejected("Failed to process CSV file")
        ELSE LET headers == StrRow(parseCSVLine(lines[1]))
                 rows == [k \in 1..(Len(lines) - 1) |-> StrRow(parseCSVLine(lines[k + 1]))]
             IN  Resolved([headers |-> headers, rows |-> rows,
                           preview |-> Preview(headers, rows),
                           totalRows |-> Len(rows),
                           fileName |-> file.name, fileType |-> "csv"])

TrimValue(v) == IF v.t = "str" THEN Str(trim(v.s)) ELSE v

\* processTextFile, the reader.onload handler.  The returned headers are
\* trimmed; the returned rows are the raw splits; only the preview trims cells.
processTextFile(file) ==
    LET lines == SelectSeq(split(file.text, "\n"), NonBlank)
    IN  IF lines = <<>> THEN Rejected("Failed to process text file")
        ELSE LET delimiter == detectDelimiter(lines[1])
                 headers == StrRow(split(lines[1], delimiter))
                 rows == [k \in 1..(Len(lines) - 1) |-> StrRow(split(lines[k + 1], delimiter))]
                 trimmed == [i \in 1..Len(headers) |-> TrimValue(headers[i])]
                 trimmedRows == [k \in 1..Len(rows) |->
                                   [i \in 1..Len(rows[k]) |-> TrimValue(rows[k][i])]]
             IN  Resolved([headers |-> trimmed, rows |-> rows,
                           preview |-> Preview(trimmed, trimmedRows),
                           totalRows |-> Len(rows),
                           fileName |-> file.name, fileType |-> "text"])

\* processExcelFile, the reader.onload handler.  file.sheet is the row-major
\* matrix sheet_to_json(header: 1) gives for the first sheet; XLSX.read throws
\* on a corrupt workbook.
processExcelFile(file) ==
    IF file.corrupt THEN Rejected("Failed to process Excel file")
    ELSE LET jsonData == file.sheet
             headers == IF jsonData = <<>> THEN <<>> ELSE jsonData[1]
             rows == slice(jsonData, 1, Len(jsonData))
         IN  Resolved([headers |-> headers, rows |-> rows,
                       preview |-> Preview(headers, rows),
                       totalRows |-> Len(rows),
                       fileName |-> file.name, fileType |-> "excel"])

\* processFile: dispatch on getFileType; readFails is the FileReader's onerror.
processFile(file, readFails) ==
    LET fileType == getFileType(file.name)
    IN  IF fileType = "unknown" THEN Rejected("Unsupported file type: unknown")
        ELSE IF readFails THEN Rejected("Failed to read file")
        ELSE IF fileType = "excel" THEN processExcelFile(file)
        ELSE IF fileType = "csv" THEN processCSVFile(file)
        ELSE processTextFile(file)

\* One entry of validateData's errors: the check that failed and, for the
\* row-length check, the number it cites.
ValidationError(kind, count) == [kind |-> kind, count |-> count]

\* A header on which header.trim() is not callable (a non-text cell).
NotText(v) == v.t # "str"

BlankHeader(v) == v.t = "str" /\ trim(v.s) = <<>>

\* validateData without its empty-header check.
validateData_NoHeaderCheck(data) ==
    LET inconsistentRows == SelectSeq(data.rows, LAMBDA row : Len(row) # Len(data.headers))
        e2 == IF Len(inconsistentRows) > 0
              THEN <<[kind |-> "inconsistentRows", count |-> Len(inconsistentRows)]>> ELSE <<>>
        e3 == IF data.totalRows = 0 THEN <<[kind |-> "noRows", count |-> 0]>> ELSE <<>>
    IN  [threw |-> FALSE, isValid |-> (Len(e2 \o e3) = 0), errors |-> e2 \o e3]

\* validateData that takes a table for valid as soon as it has data rows.
validateData_ValidIfRows(data) ==
    LET v == validateData_NoHeaderCheck(data)
    IN  [threw |-> FALSE, isValid |-> (data.totalRows # 0), errors |-> v.errors]

\* validateData.  headers.some(h => !h.trim()) stops at the first header that
\* is blank or on which trim throws; a throw leaves validateData by exception.
validateData(data) ==
    LET hs == data.headers
        stops == {i \in 1..Len(hs) : NotText(hs[i]) \/ BlankHeader(hs[i])}
        first == CHOOSE i \in stops : \A j \in stops : i <= j
        threw == stops # {} /\ NotText(hs[first])
        e1 == IF stops # {} /\ BlankHeader(hs[first])
              THEN <<ValidationError("emptyHeaders", 0)>> ELSE <<>>
        expectedLength == Len(hs)
        inconsistentRows == SelectSeq(data.rows, LAMBDA row : Len(row) # expectedLength)
        e2 == IF Len(inconsistentRows) > 0
              THEN <<ValidationError("inconsistentRows", Len(inconsistentRows))>> ELSE <<>>
        e3 == IF data.totalRows = 0 THEN <<ValidationError("noRows", 0)>> ELSE <<>>
        errors == e1 \o e2 \o e3
    IN  IF threw THEN [threw |-> TRUE, isValid |-> FALSE, errors |-> <<>>]
        ELSE [threw |-> FALSE, isValid |-> (Len(errors) = 0), errors |-> errors]

----------------------------------------------------------------------------
(* DatabaseService and the store *)

\* The fields insertProducts reads from a product object.
Fields == {"name", "product_name", "code", "product_code", "sku",
           "category", "price", "description"}

\* Math.floor(Math.random() * 1000): the values drawn in the model.
InsertIds == {0, 999}

Query(sql, params) == [sql |-> sql, params |-> params]

NoRows == [present |-> FALSE, rows |-> <<>>]

\* QueryResult: the optional fields data, affectedRows, insertId and error are
\* absent (Undef, NoRows, "none") when the code does not set them.
Success(data, affectedRows, insertId) ==
    [success |-> TRUE, data |-> data, affectedRows |-> affectedRows,
     insertId |-> insertId, error |-> "none"]

Failure(error) ==
    [success |-> FALSE, data |-> NoRows, affectedRows |-> Undef,
     insertId |-> Undef, error |-> error]

\* executeQuery whose catch branch also reports one affected row.
executeQuery_FailureCountsRow(st, query, fault, insertId) ==
    IF fault
    THEN [result |-> [Failure("Unknown database error") EXCEPT !.affectedRows = Num(1)],
          store |-> st]
    ELSE [result |-> Success(NoRows, Num(1), Num(insertId)), store |-> st]

\* executeQuery as written: the simulated database operation.  It logs the
\* query, waits, and answers success with affectedRows 1 and a random
\* insertId; it carries no data and leaves the table as it is.  fault is an
\* exception raised inside the try block, answered by the catch branch.
executeQuery(st, query, fault, insertId) ==
    IF fault
    THEN [result |-> Failure("Unknown database error"), store |-> st]
    ELSE [result |-> Success(NoRows, Num(1), Num(insertId)), store |-> st]

\* The live implementation of the same interface: the query is run on the
\* store.  A multi-row INSERT adds all its rows or, on a store error, none;
\* SELECT ... IN (?) returns the product_code of every matching row.
LiveQuery(st, query, fault, insertId) ==
    IF fault
    THEN [result |-> Failure("store error"), store |-> st]
    ELSE IF query.sql = "INSERT"
    THEN [result |-> Success(NoRows, Num(Len(query.params)), Num(insertId)),
          store |-> st \o query.params]
    ELSE IF query.sql = "SELECT"
    THEN LET hit == SelectSeq(st, LAMBDA row :
                        \E k \in 1..Len(query.params) : query.params[k] = row.product_code)
         IN  [result |-> Success([present |-> TRUE,
                                  rows |-> [k \in 1..Len(hit) |->
                                               [product_code |-> hit[k].product_code]]],
                                 Undef, Undef),
              store |-> st]
    ELSE [result |-> Success([present |-> TRUE, rows |-> <<>>], Undef, Undef),
          store |-> st]

\* The store interface with its two substitutable implementations, selected
\* by configuration.
StoreExecute(st, query, fault, insertId) ==
    IF backend = "simulated"
    THEN executeQuery(st, query, fault, insertId)
    ELSE LiveQuery(st, query, fault, insertId)

\* The natural key insertProducts writes: code || product_code || sku.
NaturalKey(product) == Or(Or(product["code"], product["product_code"]), product["sku"])

\* One row of the VALUES list built by insertProducts.
ValuesRow(product) ==
    [product_name |-> Or(product["name"], product["product_name"]),
     product_code |-> NaturalKey(product),
     category     |-> product["category"],
     price        |-> product["price"],
     description  |-> product["description"],
     created_at   |-> "now"]

\* insertProducts: maps every product to a row and issues one INSERT with the
\* whole list, whatever its length; returns executeQuery's result.
insertProducts(st, products, fault, insertId) ==
    LET values == [k \in 1..Len(products) |-> ValuesRow(products[k])]
        query == Query("INSERT", values)
        out == StoreExecute(st, query, fault, insertId)
    IN  [result |-> out.result, store |-> out.store, issued |-> <<query>>]

\* checkDuplicates: issues one SELECT with the whole list, whatever its
\* length; answers the product codes of result.data when the query succeeded
\* with data, and the empty list otherwise.
checkDuplicates(st, productCodes, fault, insertId) ==
    LET query == Query("SELECT", productCodes)
        out == StoreExecute(st, query, fault, insertId)
        result == out.result
    IN  [codes |-> IF result.success /\ result.data.present
                   THEN [k \in 1..Len(result.data.rows) |-> result.data.rows[k].product_code]
                   ELSE <<>>,
         store |-> out.store, issued |-> <<query>>, result |-> result]

----------------------------------------------------------------------------
(* ProductMapper, DuplicateResolver, BulkInserter *)

FieldText(f) ==
    CASE f = "name" -> <<"n","a","m","e">>
      [] f = "product_name" -> <<"p","r","o","d","u","c","t","_","n","a","m","e">>
      [] f = "code" -> <<"c","o","d","e">>
      [] f = "product_code" -> <<"p","r","o","d","u","c","t","_","c","o","d","e">>
      [] f = "sku" -> <<"s","k","u">>
      [] f = "category" -> <<"c","a","t","e","g","o","r","y">>
      [] f = "price" -> <<"p","r","i","c","e">>
      [] f = "description" -> <<"d","e","s","c","r","i","p","t","i","o","n">>

\* The column a target field resolves to: the first header equal to the field
\* name, compared case-insensitively.
ColumnOf(headers, f) ==
    LET match == {i \in 1..Len(headers) :
                     /\ headers[i].t = "str"
                     /\ toLowerCase(trim(headers[i].s)) = FieldText(f)}
    IN  IF match = {} THEN 0 ELSE CHOOSE i \in match : \A j \in match : i <= j

Digits == {"0", "1", "2", "3", "4", "5", "6", "7", "8", "9"}

\* A text that parses as a decimal: digits with at most one point.
IsDecimal(s) ==
    /\ \E i \in 1..Len(s) : s[i] \in Digits
    /\ \A i \in 1..Len(s) : s[i] \in Digits \cup {"."}
    /\ Cardinality({i \in 1..Len(s) : s[i] = "."}) <= 1

\* A price parsed as a decimal, written with its digits.
Dec(s) == [t |-> "dec", s |-> s, n |-> 0]

\* Best-effort coercion of the price: a text that parses becomes a decimal,
\* any other value is passed through as it is.
CoercePrice(v) == IF v.t = "str" /\ IsDecimal(v.s) THEN Dec(v.s) ELSE v

ProductOf(headers, row) ==
    [f \in Fields |->
        IF f = "price" THEN CoercePrice(At(row, ColumnOf(headers, f)))
        ELSE At(row, ColumnOf(headers, f))]

\* A mapper that drops the rows whose price does not parse.
MapTable_DropsBadPrice(table) ==
    LET products == [k \in 1..Len(table.rows) |-> ProductOf(table.headers, table.rows[k])]
        bad(p) == Falsy(Or(Or(p["code"], p["product_code"]), p["sku"]))
                  \/ (p["price"].t = "str" /\ p["price"].s # <<>>)
    IN  [accepted |-> SelectSeq(products, LAMBDA p : ~bad(p)),
         rejected |-> SelectSeq(products, bad)]

\* ProductMapper.map: a row with no populated natural-key alias is rejected,
\* every other row is accepted.
MapTable(table) ==
    LET products == [k \in 1..Len(table.rows) |-> ProductOf(table.headers, table.rows[k])]
    IN  [accepted |-> SelectSeq(products, LAMBDA p : ~Falsy(NaturalKey(p))),
         rejected |-> SelectSeq(products, LAMBDA p : Falsy(NaturalKey(p)))]

Keys(records) == [k \in 1..Len(records) |-> NaturalKey(records[k])]

Member(x, s) == \E k \in 1..Len(s) : s[k] = x

\* DuplicateResolver.resolve: one checkDuplicates call for the keys of the
\* whole batch, then the order-preserving partition by the codes it answers.
Resolve(st, candidates, fault, insertId) ==
    LET out == checkDuplicates(st, Keys(candidates), fault, insertId)
    IN  [fresh      |-> SelectSeq(candidates, LAMBDA p : ~Member(NaturalKey(p), out.codes)),
         duplicates |-> SelectSeq(candidates, LAMBDA p : Member(NaturalKey(p), out.codes)),
         store |-> out.store, issued |-> out.issued, result |-> out.result]

\* BulkInserter.insert: InsertOutcome of one insertProducts call.
InsertOutcome(result) ==
    [insertedCount |-> IF result.affectedRows.t = "num"
                       THEN result.affectedRows.n ELSE 0,
     firstError |-> result.error]

----------------------------------------------------------------------------
(* Inputs *)

File(name, text, sheet, corrupt) ==
    [name |-> name, text |-> text, sheet |-> sheet, corrupt |-> corrupt]

Files == {
    File(<<"p","r","o","d","u","c","t","s",".","c","s","v">>,
         <<"c","o","d","e",",","n","a","m","e",",","p","r","i","c","e","\n","A","1",",","W","i","d","g","e","t",",","9",".","9","9","\n","A","2",",","G","a","d","g","e","t",",","5",".","0","0">>,
         <<>>, FALSE),
    File(<<"d","u","p",".","c","s","v">>,
         <<"c","o","d","e","\n","A","1","\n","A","1">>,
         <<>>, FALSE),
    File(<<"b","l","a","n","k",".","c","s","v">>,
         <<"c","o","d","e",",","\n","A","1",",","x">>,
         <<>>, FALSE),
    File(<<"n","o","k","e","y",".","c","s","v">>,
         <<"n","a","m","e","\n","W","\n","\n","G">>,
         <<>>, FALSE),
    File(<<"d","a","t","a",".","j","s","o","n">>,
         <<"c","o","d","e","\n","A","1">>,
         <<>>, FALSE),
    File(<<"e","m","p","t","y",".","c","s","v">>,
         <<"\n">>,
         <<>>, FALSE),
    File(<<"m","i","x","e","d",".","C","S","V">>,
         <<"s","k","u",",","n","a","m","e","\n",",","W","\n","A","2",",","G">>,
         <<>>, FALSE),
    File(<<"l","i","s","t",".","t","s","v">>,
         <<"C","o","d","e","\t","n","a","m","e","\n","A","3","\t","W">>,
         <<>>, FALSE),
    File(<<"b","o","o","k",".","x","l","s","x">>,
         <<>>,
         <<<<Str(<<"c","o","d","e">>), Str(<<"p","r","i","c","e">>)>>,
                   <<Str(<<"A","1">>), Num(5)>>, <<Str(<<"A","3">>), Num(0)>>>>, FALSE),
    File(<<"b","a","d",".","x","l","s">>,
         <<>>,
         <<>>, TRUE),
    File(<<"h","e","a","d",".","c","s","v">>,
         <<"c","o","d","e",",","n","a","m","e","\n">>,
         <<>>, FALSE),
    File(<<"r","a","g","g","e","d",".","c","s","v">>,
         <<"c","o","d","e",",","n","a","m","e","\n","A","1","\n","A","6",",","G">>,
         <<>>, FALSE),
    File(<<"p","r","i","c","e",".","c","s","v">>,
         <<"c","o","d","e",",","p","r","i","c","e","\n","A","7",",","a","b","c","\n",
           ",","5","\n","A","8",",","1",".","5">>,
         <<>>, FALSE),
    File(<<"n","u","m",".","x","l","s","x">>,
         <<>>,
         <<<<Num(7), Str(<<"c","o","d","e">>)>>, <<Str(<<"x">>), Str(<<"A","5">>)>>>>, FALSE)}

StoreRow(code) ==
    [product_name |-> Undef, product_code |-> Str(code), category |-> Undef,
     price |-> Undef, description |-> Undef, created_at |-> "before"]

\* The table before the run: at most one row per natural key.
InitialStores == {<<>>,
                  <<StoreRow(<<"A","1">>)>>,
                  <<StoreRow(<<"A","2">>), StoreRow(<<"A","1">>)>>}

\* A product object as a direct caller of DatabaseService passes it.
Product(code, product_code, sku, name) ==
    [f \in Fields |->
        CASE f = "code" -> code
          [] f = "product_code" -> product_code
          [] f = "sku" -> sku
          [] f = "name" -> name
          [] OTHER -> Undef]

ProductLists == {<<>>,
                 <<Product(Str(<<"A","1">>), Undef, Undef, Str(<<"W">>))>>,
                 <<Product(Str(<<"A","1">>), Undef, Undef, Undef),
                   Product(Undef, Undef, Str(<<"A","2">>), Undef)>>,
                 <<Product(Str(<<>>), Str(<<"A","3">>), Str(<<"A","4">>), Undef)>>,
                 <<Product(Num(0), Str(<<"A","5">>), Undef, Undef)>>}

CodeLists == {<<>>,
              <<Str(<<"A","1">>)>>,
              <<Str(<<"A","1">>), Str(<<"A","2">>)>>,
              <<Str(<<"A","3">>)>>}

Runs == {1, 2}

\* Direct DatabaseService calls made before the ingestion run starts.
MaxCalls == 2

----------------------------------------------------------------------------
(* State *)

NoCounts == [requested |-> 0, inserted |-> 0, skippedAsDuplicate |-> 0,
             rejectedInvalid |-> 0]

NoFile == File(<<>>, <<>>, <<>>, FALSE)

IdleRun ==
    [pc |-> "Idle", file |-> NoFile, table |-> NoData, errors |-> <<>>,
     accepted |-> <<>>, rejected |-> <<>>, fresh |-> <<>>, duplicates |-> <<>>,
     hasResult |-> FALSE, result |-> NoCounts, error |-> "none",
     counts |-> NoCounts, visited |-> <<>>, storeAtStart |-> <<>>,
     resolverGot |-> <<>>, inserterGot |-> <<>>, issued |-> <<>>,
     lookup |-> "none", insert |-> "none", insertStore |-> <<>>,
     retries |-> 0, cancel |-> "none", inFlight |-> FALSE,
     pending |-> Failure("none")]

NoCall == [op |-> "none", products |-> <<>>, productCodes |-> <<>>,
           issued |-> <<>>, result |-> Failure("none"), codes |-> <<>>,
           storeBefore |-> <<>>]

NoFs == [op |-> "none"]

\* connectionLimit of the pool.
PoolLimit == 10

\* Requests the server handles at the same time.
Requests == {1, 2}

NoReport == [status |-> "none", database |-> "none", ollama |-> "none"]

IdleRequest == [kind |-> "none", stage |-> "idle", report |-> NoReport,
                response |-> "none", dbUp |-> FALSE, ollamaUp |-> FALSE]

\* The server after app.listen: no connection checked out, no request.
ServerStart == [held |-> 0, leaked |-> 0, req |-> [q \in Requests |-> IdleRequest]]

Init ==
    /\ fs = NoFs
    /\ server = ServerStart
    /\ backend \in {"simulated", "live"}
    /\ store \in InitialStores
    /\ queries = 0
    /\ run = [r \in Runs |-> IdleRun]
    /\ call = NoCall

AllIdle == \A r \in Runs : run[r].pc = "Idle"

Terminal(pc) == pc \in {"Done", "Failed"}

----------------------------------------------------------------------------
(* Direct DatabaseService operations *)

InsertProductsCall(products, fault, insertId) ==
    /\ AllIdle
    /\ queries < MaxCalls
    /\ LET out == insertProducts(store, products, fault, insertId)
       IN  /\ store' = out.store
           /\ queries' = queries + Len(out.issued)
           /\ call' = [NoCall EXCEPT !.op = "insertProducts", !.products = products,
                                     !.issued = out.issued, !.result = out.result,
                                     !.storeBefore = store]
    /\ UNCHANGED <<backend, run, fs, server>>

CheckDuplicatesCall(productCodes, fault, insertId) ==
    /\ AllIdle
    /\ queries < MaxCalls
    /\ LET out == checkDuplicates(store, productCodes, fault, insertId)
       IN  /\ store' = out.store
           /\ queries' = queries + Len(out.issued)
           /\ call' = [NoCall EXCEPT !.op = "checkDuplicates",
                                     !.productCodes = productCodes,
                                     !.issued = out.issued, !.result = out.result,
                                     !.codes = out.codes, !.storeBefore = store]
    /\ UNCHANGED <<backend, run, fs, server>>

----------------------------------------------------------------------------
(* IngestionOrchestrator: one run per uploaded file *)

Enter(rec, pc) == [rec EXCEPT !.pc = pc, !.visited = Append(rec.visited, pc)]

Fail(rec, error, counts) ==
    [Enter(rec, "Failed") EXCEPT !.error = error, !.counts = counts]

Counts(rec, inserted) ==
    [requested |-> rec.table.totalRows, inserted |-> inserted,
     skippedAsDuplicate |-> Len(rec.duplicates),
     rejectedInvalid |-> Len(rec.rejected)]

\* A behaviour exercises either direct calls or ingestion runs: a run starts
\* on a system no direct call has touched.
StartRun(r, file) ==
    /\ run[r].pc = "Idle"
    /\ call = NoCall
    /\ run' = [run EXCEPT ![r] = [Enter(IdleRun, "Parsing") EXCEPT
                                     !.file = file, !.storeAtStart = store]]
    /\ UNCHANGED <<backend, store, queries, call, fs, server>>

ParseStep(r, readFails) ==
    /\ run[r].pc = "Parsing"
    /\ LET res == processFile(run[r].file, readFails)
       IN  run' = [run EXCEPT ![r] =
                      IF res.ok
                      THEN [Enter(@, "Validating") EXCEPT !.table = res.data]
                      ELSE Fail(@, res.error, NoCounts)]
    /\ UNCHANGED <<backend, store, queries, call, fs, server>>

ValidateStep(r) ==
    /\ run[r].pc = "Validating"
    /\ LET v == validateData(run[r].table)
       IN  run' = [run EXCEPT ![r] =
                      IF v.threw THEN Fail(@, "TypeError", Counts(@, 0))
                      ELSE IF v.isValid THEN Enter(@, "Mapping")
                      ELSE [Fail(@, "ValidationFailure", Counts(@, 0))
                               EXCEPT !.errors = v.errors]]
    /\ UNCHANGED <<backend, store, queries, call, fs, server>>

MapStep(r) ==
    /\ run[r].pc = "Mapping"
    /\ LET m == MapTable(run[r].table)
       IN  run' = [run EXCEPT ![r] =
                      [Enter(@, "ResolvingDuplicates") EXCEPT
                          !.accepted = m.accepted, !.rejected = m.rejected]]
    /\ UNCHANGED <<backend, store, queries, call, fs, server>>

\* checkDuplicates answers a list of codes and nothing else, so the run has no
\* failure to act on at this step.
ResolveStep(r, fault, insertId) ==
    /\ run[r].pc = "ResolvingDuplicates"
    /\ LET out == Resolve(store, run[r].accepted, fault, insertId)
       IN  /\ store' = out.store
           /\ queries' = queries + Len(out.issued)
           /\ run' = [run EXCEPT ![r] =
                         [Enter(@, "Inserting") EXCEPT
                             !.fresh = out.fresh, !.duplicates = out.duplicates,
                             !.resolverGot = run[r].accepted,
                             !.issued = @ \o out.issued,
                             !.lookup = IF out.result.success THEN "ok" ELSE "failed"]]
    /\ UNCHANGED <<backend, call, fs, server>>

InsertStep(r, fault, insertId) ==
    /\ run[r].pc = "Inserting"
    /\ LET out == insertProducts(store, run[r].fresh, fault, insertId)
           outcome == InsertOutcome(out.result)
           got == [run[r] EXCEPT !.inserterGot = run[r].fresh,
                                 !.issued = @ \o out.issued,
                                 !.insertStore = store,
                                 !.insert = IF out.result.success THEN "ok" ELSE "failed"]
       IN  /\ store' = out.store
           /\ queries' = queries + Len(out.issued)
           /\ run' = [run EXCEPT ![r] =
                         IF out.result.success
                         THEN [Enter(got, "Done") EXCEPT
                                  !.hasResult = TRUE,
                                  !.result = Counts(got, outcome.insertedCount)]
                         ELSE Fail(got, outcome.firstError,
                                   Counts(got, outcome.insertedCount))]
    /\ UNCHANGED <<backend, call, fs, server>>

\* The runs of the sequential specification: one run, no concurrent run.
SingleRun == {1}

Next ==
    \/ \E products \in ProductLists, fault \in BOOLEAN, insertId \in InsertIds :
          InsertProductsCall(products, fault, insertId)
    \/ \E productCodes \in CodeLists, fault \in BOOLEAN, insertId \in InsertIds :
          CheckDuplicatesCall(productCodes, fault, insertId)
    \/ \E r \in SingleRun, file \in Files : StartRun(r, file)
    \/ \E r \in SingleRun, readFails \in BOOLEAN : ParseStep(r, readFails)
    \/ \E r \in SingleRun : ValidateStep(r)
    \/ \E r \in SingleRun : MapStep(r)
    \/ \E r \in SingleRun, fault \in BOOLEAN, insertId \in InsertIds :
          ResolveStep(r, fault, insertId)
    \/ \E r \in SingleRun, fault \in BOOLEAN, insertId \in InsertIds :
          InsertStep(r, fault, insertId)

Spec == Init /\ [][Next]_vars

----------------------------------------------------------------------------
(* Properties *)

CodesOf(st) == [k \in 1..Len(st) |-> st[k].product_code]

Occurrences(code, st) == Cardinality({k \in 1..Len(st) : st[k].product_code = code})

UniqueKeys(st) == \A i, j \in 1..Len(st) :
                     st[i].product_code = st[j].product_code => i = j

ProductsCsv == <<"p","r","o","d","u","c","t","s",".","c","s","v">>

KeyA1 == Str(<<"A","1">>)

KeyA2 == Str(<<"A","2">>)

C2_PartitionByStore ==
    \A r \in Runs :
        run[r].lookup # "none" =>
            /\ Len(run[r].fresh) + Len(run[r].duplicates) = Len(run[r].resolverGot)
            /\ \A p \in {run[r].fresh[k] : k \in 1..Len(run[r].fresh)} :
                  ~Member(NaturalKey(p), Keys(run[r].duplicates))
            /\ \A k \in 1..Len(run[r].resolverGot) :
                  Member(run[r].resolverGot[k], run[r].duplicates)
                     <=> Member(NaturalKey(run[r].resolverGot[k]),
                                CodesOf(run[r].storeAtStart))

\* C3: the BatchResult of a run that reaches Done balances: requested is the
\* number of data rows and equals inserted + skippedAsDuplicate +
\* rejectedInvalid, all counts non-negative.
C3_CountsBalance ==
    \A r \in Runs :
        run[r].pc = "Done" =>
            LET b == run[r].result
            IN  /\ run[r].hasResult
                /\ b.requested = Len(run[r].table.rows)
                /\ b.requested = b.inserted + b.skippedAsDuplicate + b.rejectedInvalid
                /\ b.requested >= 0 /\ b.inserted >= 0
                /\ b.skippedAsDuplicate >= 0 /\ b.rejectedInvalid >= 0

\* C4: inserting an empty record list issues no query and returns
\* insertedCount 0 with no error.
C4_EmptyInsertNoQuery ==
    (call.op = "insertProducts" /\ call.products = <<>>) =>
        /\ call.issued = <<>>
        /\ InsertOutcome(call.result).insertedCount = 0
        /\ call.result.success

\* C5: the duplicate lookup issues exactly one query for a non-empty list of
\* candidates and none for an empty list, for which it answers no duplicate.
C5_OneLookupOrNone ==
    call.op = "checkDuplicates" =>
        IF call.productCodes = <<>>
        THEN call.issued = <<>> /\ call.codes = <<>>
        ELSE Len(call.issued) = 1

\* C6: insert performs one multi-row write per call; when that write fails
\* the outcome is insertedCount 0 with the failure, and the store holds
\* exactly what it held before the call.
C6_FailedInsertAllOrNothing ==
    /\ call.op = "insertProducts" =>
          /\ Len(call.issued) = 1
          /\ call.issued[1].sql = "INSERT"
          /\ Len(call.issued[1].params) = Len(call.products)
          /\ ~call.result.success =>
                /\ InsertOutcome(call.result).insertedCount = 0
                /\ InsertOutcome(call.result).firstError # "none"
                /\ store = call.storeBefore
    /\ \A r \in Runs :
          run[r].insert = "failed" =>
              /\ store = run[r].insertStore
              /\ run[r].counts.inserted = 0
              /\ run[r].error # "none"

C6_Witness ==
    /\ call.op = "insertProducts"
    /\ ~call.result.success
    /\ Len(call.products) = 2
    /\ Len(call.issued) = 1

\* C7: a store failure during the existence lookup or the insert ends the run
\* in Failed with a reason; a failed lookup is never taken for 'no duplicates'.
C7_StoreFailureIsFatal ==
    \A r \in Runs :
        /\ run[r].lookup = "failed" => (run[r].pc = "Failed" /\ run[r].error # "none")
        /\ run[r].insert = "failed" => (run[r].pc = "Failed" /\ run[r].error # "none")

StateOrder == <<"Parsing", "Validating", "Mapping", "ResolvingDuplicates",
                "Inserting", "Done">>

InOrder(visited) ==
    \E k \in 0..Len(StateOrder) :
        \/ visited = SubSeq(StateOrder, 1, k)
        \/ k < Len(StateOrder) /\ visited = Append(SubSeq(StateOrder, 1, k), "Failed")

\* C8: a run visits Parsing, Validating, Mapping, ResolvingDuplicates,
\* Inserting, Done in this order, no state twice; a failure of any step moves
\* the run directly to Failed with that step's error.
C8_OrderAndFailure ==
    \A r \in Runs :
        /\ InOrder(run[r].visited)
        /\ run[r].pc = "Failed" => run[r].error # "none"
        /\ (run[r].lookup = "failed" \/ run[r].insert = "failed") => run[r].pc = "Failed"

\* What the three checks of validation look for, stated on the table itself.
TableInvalid(t) ==
    \/ \E i \in 1..Len(t.headers) : BlankHeader(t.headers[i])
    \/ \E k \in 1..Len(t.rows) : Len(t.rows[k]) # Len(t.headers)
    \/ Len(t.rows) = 0

\* C9: no row that failed validation or mapping reaches the resolver or the
\* inserter: a run on an invalid table is Failed before Mapping, with no
\* BatchResult and no store call, and every record passed on has a populated
\* natural key and is not among the rejected rows.
C9_OnlyValidMappedRowsReachStore ==
    \A r \in Runs :
        /\ \A k \in 1..Len(run[r].resolverGot) :
              /\ ~Falsy(NaturalKey(run[r].resolverGot[k]))
              /\ ~Member(run[r].resolverGot[k], run[r].rejected)
        /\ \A k \in 1..Len(run[r].inserterGot) :
              /\ ~Falsy(NaturalKey(run[r].inserterGot[k]))
              /\ Member(run[r].inserterGot[k], run[r].resolverGot)
        /\ \A q \in 1..Len(run[r].issued) :
              run[r].issued[q].sql = "INSERT" =>
                  \A k \in 1..Len(run[r].issued[q].params) :
                      ~Falsy(run[r].issued[q].params[k].product_code)
        /\ (TableInvalid(run[r].table) /\ run[r].pc \notin {"Idle", "Parsing", "Validating"}) =>
              /\ run[r].pc = "Failed"
              /\ ~run[r].hasResult
              /\ run[r].issued = <<>>
              /\ ~Member("Mapping", run[r].visited)

C9_Witness ==
    \E r \in Runs :
        /\ run[r].pc = "Failed"
        /\ run[r].error = "ValidationFailure"
        /\ \E i \in 1..Len(run[r].table.headers) : BlankHeader(run[r].table.headers[i])
        /\ Len(run[r].table.rows) > 0
        /\ run[r].visited = <<"Parsing", "Validating", "Failed">>

\* C10: products.csv (code,name,price; A1,Widget,9.99; A2,Gadget,5.00) into a
\* store holding A1, with no read or store failure, ends in Done with
\* requested 2, inserted 1, skippedAsDuplicate 1, rejectedInvalid 0, and the
\* store then holds A1 once and A2 once.
C10_ScenarioResult ==
    \A r \in Runs :
        (/\ run[r].file.name = ProductsCsv
         /\ run[r].storeAtStart = <<StoreRow(<<"A","1">>)>>
         /\ Terminal(run[r].pc)
         /\ run[r].lookup # "failed" /\ run[r].insert # "failed"
         /\ run[r].error # "Failed to read file") =>
            /\ run[r].pc = "Done"
            /\ run[r].result = [requested |-> 2, inserted |-> 1,
                                skippedAsDuplicate |-> 1, rejectedInvalid |-> 0]
            /\ Occurrences(KeyA1, store) = 1
            /\ Occurrences(KeyA2, store) = 1

----------------------------------------------------------------------------
(* Concurrent ingestion runs *)

MixedCsv == <<"m","i","x","e","d",".","C","S","V">>

\* Two uploads whose batches share the natural key A2.
RaceFiles == {f \in Files : f.name \in {ProductsCsv, MixedCsv}}

\* Every run steps on its own; the steps of different runs interleave freely
\* (each step is one await of the run).
NextRace ==
    \/ \E r \in Runs, file \in RaceFiles : StartRun(r, file)
    \/ \E r \in Runs : ParseStep(r, FALSE)
    \/ \E r \in Runs : ValidateStep(r)
    \/ \E r \in Runs : MapStep(r)
    \/ \E r \in Runs, fault \in BOOLEAN, insertId \in InsertIds :
          ResolveStep(r, fault, insertId)
    \/ \E r \in Runs, fault \in BOOLEAN, insertId \in InsertIds :
          InsertStep(r, fault, insertId)

SpecRace == Init /\ [][NextRace]_vars

\* C11: when two runs whose batches share a natural key the store did not
\* hold run concurrently and both end in Done with no store failure, exactly
\* one of them inserts the key and the other reports it as a duplicate.
C11_ExactlyOneRunInserts ==
    (\A r \in Runs : run[r].pc = "Done" /\ run[r].lookup = "ok" /\ run[r].insert = "ok") =>
        \A key \in {KeyA1, KeyA2} :
            (/\ \A r \in Runs : Member(key, Keys(run[r].resolverGot))
             /\ \E r \in Runs : ~Member(key, CodesOf(run[r].storeAtStart))) =>
                \E w \in Runs :
                    /\ Member(key, Keys(run[w].inserterGot))
                    /\ \A l \in Runs \ {w} :
                          /\ ~Member(key, Keys(run[l].inserterGot))
                          /\ Member(key, Keys(run[l].duplicates))

----------------------------------------------------------------------------
(* Store timeout and caller-driven retry *)

DupCsv == <<"d","u","p",".","c","s","v">>

RetryFiles == {f \in Files : f.name \in {ProductsCsv, DupCsv}}

\* Retries a caller makes of one run.
MaxRetries == 1

\* The caller's timeout expires on the insert round-trip: the run fails with
\* StoreTimeout and does not know whether the INSERT was committed.
InsertTimeout(r, committed, insertId) ==
    /\ run[r].pc = "Inserting"
    /\ LET out == insertProducts(store, run[r].fresh, FALSE, insertId)
           got == [run[r] EXCEPT !.inserterGot = run[r].fresh,
                                 !.issued = @ \o out.issued,
                                 !.insertStore = store,
                                 !.insert = "timeout"]
       IN  /\ store' = IF committed THEN out.store ELSE store
           /\ queries' = queries + Len(out.issued)
           /\ run' = [run EXCEPT ![r] = Fail(got, "StoreTimeout", Counts(got, 0))]
    /\ UNCHANGED <<backend, call, fs, server>>

\* The caller retries after a timeout: duplicate resolution is run again on
\* the accepted records before the insert is issued again.
RetryAfterTimeout(r) ==
    /\ run[r].pc = "Failed"
    /\ run[r].error = "StoreTimeout"
    /\ run[r].retries < MaxRetries
    /\ run' = [run EXCEPT ![r] =
                  [Enter(@, "ResolvingDuplicates") EXCEPT
                      !.error = "none", !.retries = @ + 1,
                      !.lookup = "none", !.insert = "none"]]
    /\ UNCHANGED <<backend, store, queries, call, fs, server>>

NextRetry ==
    \/ \E r \in SingleRun, file \in RetryFiles : StartRun(r, file)
    \/ \E r \in SingleRun : ParseStep(r, FALSE)
    \/ \E r \in SingleRun : ValidateStep(r)
    \/ \E r \in SingleRun : MapStep(r)
    \/ \E r \in SingleRun, fault \in BOOLEAN, insertId \in InsertIds :
          ResolveStep(r, fault, insertId)
    \/ \E r \in SingleRun, fault \in BOOLEAN, insertId \in InsertIds :
          InsertStep(r, fault, insertId)
    \/ \E r \in SingleRun, committed \in BOOLEAN, insertId \in InsertIds :
          InsertTimeout(r, committed, insertId)
    \/ \E r \in SingleRun : RetryAfterTimeout(r)

SpecRetry == Init /\ [][NextRetry]_vars

----------------------------------------------------------------------------
(* Cancellation of a run *)

\* A cancellation that is honoured at any point, also while the insert call
\* is in flight.
Honoured_EvenInFlight(rec) == rec.cancel # "none"

\* A requested cancellation is honoured unless the bulk insert call has been
\* issued and has not returned.
Honoured(rec) == rec.cancel # "none" /\ ~rec.inFlight

\* cancel records where the run was when the cancellation was requested.
RequestCancel(r) ==
    /\ run[r].pc \notin {"Idle", "Done", "Failed"}
    /\ run[r].cancel = "none"
    /\ run' = [run EXCEPT ![r].cancel =
                  IF run[r].inFlight THEN "InFlight" ELSE run[r].pc]
    /\ UNCHANGED <<backend, store, queries, call, fs, server>>

Abandon(r) ==
    /\ ~Terminal(run[r].pc)
    /\ Honoured(run[r])
    /\ run' = [run EXCEPT ![r] = Fail(@, "Cancelled", Counts(@, 0))]
    /\ UNCHANGED <<backend, store, queries, call, fs, server>>

\* The bulk insert call is issued: the store executes it, the call has not
\* returned to the run yet.
IssueInsert(r, fault, insertId) ==
    /\ run[r].pc = "Inserting"
    /\ ~run[r].inFlight
    /\ ~Honoured(run[r])
    /\ LET out == insertProducts(store, run[r].fresh, fault, insertId)
       IN  /\ store' = out.store
           /\ queries' = queries + Len(out.issued)
           /\ run' = [run EXCEPT ![r] =
                         [@ EXCEPT !.inserterGot = run[r].fresh,
                                   !.issued = @ \o out.issued,
                                   !.insertStore = store,
                                   !.inFlight = TRUE,
                                   !.pending = out.result]]
    /\ UNCHANGED <<backend, call, fs, server>>

ReturnInsert(r) ==
    /\ run[r].pc = "Inserting"
    /\ run[r].inFlight
    /\ ~Honoured(run[r])
    /\ LET result == run[r].pending
           outcome == InsertOutcome(result)
           got == [run[r] EXCEPT !.inFlight = FALSE,
                                 !.insert = IF result.success THEN "ok" ELSE "failed"]
       IN  run' = [run EXCEPT ![r] =
                      IF result.success
                      THEN [Enter(got, "Done") EXCEPT
                               !.hasResult = TRUE,
                               !.result = Counts(got, outcome.insertedCount)]
                      ELSE Fail(got, outcome.firstError,
                                Counts(got, outcome.insertedCount))]
    /\ UNCHANGED <<backend, store, queries, call, fs, server>>

NextCancel ==
    \/ \E r \in Runs, file \in RaceFiles : StartRun(r, file)
    \/ \E r \in Runs : ~Honoured(run[r]) /\ ParseStep(r, FALSE)
    \/ \E r \in Runs : ~Honoured(run[r]) /\ ValidateStep(r)
    \/ \E r \in Runs : ~Honoured(run[r]) /\ MapStep(r)
    \/ \E r \in Runs, insertId \in InsertIds :
          ~Honoured(run[r]) /\ ResolveStep(r, FALSE, insertId)
    \/ \E r \in Runs, fault \in BOOLEAN, insertId \in InsertIds :
          IssueInsert(r, fault, insertId)
    \/ \E r \in Runs : ReturnInsert(r)
    \/ \E r \in Runs : RequestCancel(r)
    \/ \E r \in Runs : Abandon(r)

SpecCancel == Init /\ [][NextCancel]_vars

BeforeInsert == {"Parsing", "Validating", "Mapping", "ResolvingDuplicates"}

InsertIssued(rec) ==
    \E q \in 1..Len(rec.issued) : rec.issued[q].sql = "INSERT"

\* C13: a run cancelled while Parsing, Validating, Mapping or
\* ResolvingDuplicates never issues an insert and ends cancelled; a run
\* cancelled while its insert call is in flight stays in Inserting until the
\* call returns and then ends with the outcome of the insert.
C13_CancelBeforeInsertOnly ==
    \A r \in Runs :
        /\ run[r].cancel \in BeforeInsert =>
              /\ ~InsertIssued(run[r])
              /\ run[r].pc # "Done"
              /\ Terminal(run[r].pc) => run[r].error = "Cancelled"
        /\ run[r].cancel = "InFlight" =>
              /\ InsertIssued(run[r])
              /\ run[r].inFlight => run[r].pc = "Inserting"
              /\ Terminal(run[r].pc) =>
                    /\ (run[r].pc = "Done") = run[r].pending.success
                    /\ run[r].error = run[r].pending.error
                    /\ run[r].pc = "Done" =>
                          run[r].result.inserted =
                              InsertOutcome(run[r].pending).insertedCount

C13_Witness ==
    \E a, b \in Runs :
        /\ run[a].cancel \in BeforeInsert /\ run[a].pc = "Failed"
        /\ run[b].cancel = "InFlight" /\ run[b].pc = "Done"

----------------------------------------------------------------------------
(* Direct FileService operations *)
\* Each behaviour makes one call on a fresh FileService, followed for
\* processFile by validateData on its table.

RECURSIVE Repeat(_, _)
Repeat(s, n) == IF n = 0 THEN <<>> ELSE s \o Repeat(s, n - 1)

\* Data rows of a generated file.
MaxRows == 11

\* Characters of a generated comma-delimited line.
MaxLineLen == 4

\* Characters of a generated header line.
MaxHeaderLen == 3

\* Lines of a generated comma-delimited input.
MaxLines == 3

Seqs(alphabet, n) == UNION {[1..k -> alphabet] : k \in 0..n}

TableText(n) == <<"a", ",", "b">> \o Repeat(<<"\n", "1", ",", "2">>, n)

TableSheet(n) ==
    <<<<Str(<<"a">>), Str(<<"b">>)>>>> \o [k \in 1..n |-> <<Num(1), Str(<<"2">>)>>]

FileNames == {<<"a",".","c","s","v">>, <<"a",".","C","S","V">>,
              <<"a",".","x","l","s","x">>, <<"a",".","X","L","S">>,
              <<"a",".","t","x","t">>, <<"a",".","T","s","v">>,
              <<"a",".","j","s","o","n">>, <<"a",".","c","s","v",".","b","a","k">>,
              <<"a">>, <<"c","s","v">>, <<"x","l","s","x">>, <<"a",".">>}

PadTxt == <<"p","a","d",".","t","x","t">>

FsFiles ==
    Files
    \cup {File(name, TableText(n), TableSheet(n), FALSE) :
             name \in FileNames, n \in 0..MaxRows}
    \cup {File(PadTxt, <<" ","a"," ",";","b","\n"," ","1"," ",";"," ","2">>, <<>>, FALSE)}
    \cup {File(<<"e",".","t","x","t">>, <<" ","\n","\t">>, <<>>, FALSE),
          File(<<"e",".","c","s","v">>, <<>>, <<>>, FALSE)}

CsvLines == Seqs({"a", ",", "\"", " "}, MaxLineLen)

HeaderLines == Seqs({"\t", ",", "|", ";", ":", "a"}, MaxHeaderLen)

LineChoices == {<<>>, <<" ">>, <<"\t", "\r">>, <<"a", ",", "b">>, <<"1", ",", " ">>}

LineLists == Seqs(LineChoices, MaxLines)

RECURSIVE JoinLines(_)
JoinLines(lines) ==
    IF lines = <<>> THEN <<>>
    ELSE IF Len(lines) = 1 THEN lines[1]
    ELSE lines[1] \o <<"\n">> \o JoinLines(Tail(lines))

ProcessFileCall(file, readFails) ==
    /\ fs = NoFs
    /\ fs' = [op |-> "processFile", file |-> file, readFails |-> readFails,
              res |-> processFile(file, readFails)]
    /\ UNCHANGED <<backend, store, queries, run, call, server>>

\* validateData applied to the table the last processFile call resolved with.
ValidateDataCall ==
    /\ fs.op = "processFile"
    /\ fs.res.ok
    /\ fs' = [op |-> "validateData", file |-> fs.file, data |-> fs.res.data,
              out |-> validateData(fs.res.data)]
    /\ UNCHANGED <<backend, store, queries, run, call, server>>

ParseCSVLineCall(line) ==
    /\ fs = NoFs
    /\ fs' = [op |-> "parseCSVLine", line |-> line, fields |-> parseCSVLine(line)]
    /\ UNCHANGED <<backend, store, queries, run, call, server>>

DetectDelimiterCall(line) ==
    /\ fs = NoFs
    /\ fs' = [op |-> "detectDelimiter", line |-> line,
              delimiter |-> detectDelimiter(line)]
    /\ UNCHANGED <<backend, store, queries, run, call, server>>

\* processCSVFile on the text of the given lines, and on the text of the same
\* lines without those that hold nothing but whitespace.
ProcessCSVTwice(lines) ==
    /\ fs = NoFs
    /\ LET white(line) == \A i \in 1..Len(line) : line[i] \in {" ", "\t", "\r"}
           kept == SelectSeq(lines, LAMBDA line : ~white(line))
           name == <<"a", ".", "c", "s", "v">>
       IN  fs' = [op |-> "processCSVFile", lines |-> lines, kept |-> kept,
                  full |-> processCSVFile(File(name, JoinLines(lines), <<>>, FALSE)),
                  stripped |-> processCSVFile(File(name, JoinLines(kept), <<>>, FALSE))]
    /\ UNCHANGED <<backend, store, queries, run, call, server>>

\* Columns of a generated table.
MaxCols == 2

\* Data rows of a generated table.
MaxTableRows == 2

HeaderCells == {Str(<<"a">>), Str(<<>>), Str(<<" ">>), Num(7)}

RowOfLength(n) == [i \in 1..n |-> Str(<<"1">>)]

\* Tables as the parse paths return them: totalRows is rows.length, the rows
\* may be shorter or longer than the header row.
Tables ==
    {[headers |-> headers, rows |-> rows, preview |-> Preview(headers, rows),
      totalRows |-> Len(rows), fileName |-> <<"t">>, fileType |-> "excel"] :
        headers \in Seqs(HeaderCells, MaxCols),
        rows \in Seqs({RowOfLength(n) : n \in (MaxCols - 1)..(MaxCols + 1)}, MaxTableRows)}

ValidateTableCall(data) ==
    /\ fs = NoFs
    /\ fs' = [op |-> "validateData", file |-> NoFile, data |-> data,
              out |-> validateData(data)]
    /\ UNCHANGED <<backend, store, queries, run, call, server>>

NextFile ==
    \/ \E file \in FsFiles, readFails \in BOOLEAN : ProcessFileCall(file, readFails)
    \/ ValidateDataCall
    \/ \E data \in Tables : ValidateTableCall(data)
    \/ \E line \in CsvLines : ParseCSVLineCall(line)
    \/ \E line \in HeaderLines : DetectDelimiterCall(line)
    \/ \E lines \in LineLists : ProcessCSVTwice(lines)

SpecFile == Init /\ [][NextFile]_vars

----------------------------------------------------------------------------
(* Properties of FileService *)

\* C14: every table a parse path returns has totalRows = rows.length and
\* preview.length = min(10, rows.length).
C14_TotalRowsAndPreview ==
    (fs.op = "processFile" /\ fs.res.ok) =>
        LET data == fs.res.data
            n == Len(data.rows)
        IN  /\ data.totalRows = n
            /\ Len(data.preview) = IF n < 10 THEN n ELSE 10

C14_Witness ==
    /\ fs.op = "processFile"
    /\ fs.res.ok
    /\ fs.res.data.fileType = "text"
    /\ Len(fs.res.data.rows) > 10
    /\ Len(fs.res.data.preview) = 10

Dots(name) == {i \in 1..Len(name) : name[i] = "."}

\* The extension suffix of a filename: the text after its last dot.
Extension(name) ==
    LET last == CHOOSE i \in Dots(name) : \A j \in Dots(name) : j <= i
    IN  toLowerCase(SubSeq(name, last + 1, Len(name)))

ExpectedPath(name) ==
    IF Dots(name) = {} THEN "unsupported"
    ELSE IF Extension(name) \in {<<"x","l","s","x">>, <<"x","l","s">>} THEN "excel"
    ELSE IF Extension(name) = <<"c","s","v">> THEN "csv"
    ELSE IF Extension(name) \in {<<"t","x","t">>, <<"t","s","v">>} THEN "text"
    ELSE "unsupported"

\* C15: the parse path follows the filename's extension suffix, compared
\* case-insensitively; a filename with another extension or with none fails
\* as unsupported and produces no table.
C15_PathByExtension ==
    fs.op = "processFile" =>
        IF ExpectedPath(fs.file.name) = "unsupported"
        THEN ~fs.res.ok /\ fs.res.error = "Unsupported file type: unknown"
        ELSE /\ fs.res.error # "Unsupported file type: unknown"
             /\ fs.res.ok => fs.res.data.fileType = ExpectedPath(fs.file.name)

QuotesBefore(line, i) == Cardinality({j \in 1..(i - 1) : line[j] = "\""})

OutsideCommas(line) ==
    {i \in 1..Len(line) : line[i] = "," /\ QuotesBefore(line, i) % 2 = 0}

NthComma(line, k) ==
    CHOOSE i \in OutsideCommas(line) :
        Cardinality({j \in OutsideCommas(line) : j < i}) = k - 1

\* The k-th field of a line: the characters other than quotes between the
\* commas outside quotes that enclose it, without surrounding whitespace.
ExpectedField(line, k) ==
    LET n == Cardinality(OutsideCommas(line)) + 1
        from == IF k = 1 THEN 1 ELSE NthComma(line, k - 1) + 1
        to == IF k = n THEN Len(line) ELSE NthComma(line, k) - 1
    IN  trim(SelectSeq(SubSeq(line, from, to), LAMBDA ch : ch # "\""))

NoOuterSpace(s) == s = <<>> \/ (~IsSpace(s[1]) /\ ~IsSpace(s[Len(s)]))

\* C16: a comma-delimited line gives 1 + (commas outside quotes) fields; each
\* field is the text between those commas without the quotes, trimmed; a line
\* that ends inside quotes gives its last field like any other.
C16_QuoteAwareFields ==
    fs.op = "parseCSVLine" =>
        /\ Len(fs.fields) = Cardinality(OutsideCommas(fs.line)) + 1
        /\ \A k \in 1..Len(fs.fields) :
              /\ fs.fields[k] = ExpectedField(fs.line, k)
              /\ NoOuterSpace(fs.fields[k])

C16_Witness ==
    /\ fs.op = "parseCSVLine"
    /\ OutsideCommas(fs.line) # {}
    /\ \E i \in 1..Len(fs.line) : fs.line[i] = "," /\ i \notin OutsideCommas(fs.line)
    /\ QuotesBefore(fs.line, Len(fs.line) + 1) % 2 = 1
    /\ Len(fs.fields) = 2

\* C17: a comma-delimited input parses to the same headers, rows and totalRows
\* as the same input without its empty and all-whitespace lines.
C17_BlankLineInvariance ==
    fs.op = "processCSVFile" =>
        /\ fs.full.ok = fs.stripped.ok
        /\ fs.full.data.headers = fs.stripped.data.headers
        /\ fs.full.data.rows = fs.stripped.data.rows
        /\ fs.full.data.totalRows = fs.stripped.data.totalRows

C17_Witness ==
    /\ fs.op = "processCSVFile"
    /\ fs.full.ok
    /\ fs.full.data.totalRows >= 1
    /\ Len(fs.lines) = 3
    /\ fs.lines[2] = <<" ">>
    /\ Len(fs.kept) = 2

Preference == <<"\t", ",", "|", ";", ":">>

FieldCount(line, d) == Cardinality({i \in 1..Len(line) : line[i] = d}) + 1

\* C18: the sniffed delimiter is the candidate that splits the header line
\* into the most fields, the earliest of tab, comma, pipe, semicolon, colon
\* among those that tie.
C18_MostFieldsEarliestWins ==
    fs.op = "detectDelimiter" =>
        \E k \in 1..5 :
            /\ fs.delimiter = Preference[k]
            /\ \A j \in 1..5 :
                  FieldCount(fs.line, Preference[j]) <= FieldCount(fs.line, Preference[k])
            /\ \A j \in 1..(k - 1) :
                  FieldCount(fs.line, Preference[j]) < FieldCount(fs.line, Preference[k])

C18_Witness ==
    /\ fs.op = "detectDelimiter"
    /\ fs.delimiter = ","
    /\ FieldCount(fs.line, ",") = 2
    /\ FieldCount(fs.line, ";") = 2

TrimmedCell(v) == v.t = "str" => NoOuterSpace(v.s)

\* C19: on the generic-delimited path every data line is split on the
\* delimiter sniffed from the header line, and every header and every cell of
\* the returned rows is trimmed of surrounding whitespace.
C19_TextCellsTrimmed ==
    (fs.op = "processFile" /\ fs.res.ok /\ fs.res.data.fileType = "text") =>
        LET data == fs.res.data
            lines == SelectSeq(split(fs.file.text, "\n"),
                               LAMBDA line : \E i \in 1..Len(line) : ~IsSpace(line[i]))
            delimiter == detectDelimiter(lines[1])
        IN  /\ \A i \in 1..Len(data.headers) : TrimmedCell(data.headers[i])
            /\ \A k \in 1..Len(data.rows) :
                  /\ Len(data.rows[k]) = FieldCount(lines[k + 1], delimiter)
                  /\ \A i \in 1..Len(data.rows[k]) : TrimmedCell(data.rows[k][i])

\* C20: validateData never throws, whatever the headers and cells of the
\* table are; every problem is an entry of errors.
C20_ValidateNeverThrows ==
    fs.op = "validateData" => ~fs.out.threw

AllWhite(v) == v.t = "str" /\ \A i \in 1..Len(v.s) : IsSpace(v.s[i])

\* The rows of a table whose length differs from headers.length.
OffendingRows(data) ==
    {k \in 1..Len(data.rows) : Len(data.rows[k]) # Len(data.headers)}

\* The checks a table violates, in the order blank header, row length, no rows.
ViolatedChecks(data) ==
    (IF \E i \in 1..Len(data.headers) : AllWhite(data.headers[i])
     THEN <<"emptyHeaders">> ELSE <<>>)
    \o (IF OffendingRows(data) # {} THEN <<"inconsistentRows">> ELSE <<>>)
    \o (IF Len(data.rows) = 0 THEN <<"noRows">> ELSE <<>>)

\* C21: validateData runs its three checks on every table and returns one
\* error per violated check in the order blank header, row length, no rows.
C21_AllChecksInOrder ==
    fs.op = "validateData" =>
        /\ ~fs.out.threw
        /\ [i \in 1..Len(fs.out.errors) |-> fs.out.errors[i].kind] = ViolatedChecks(fs.data)
        /\ Len(fs.out.errors) <= 3

\* C22: in every result validateData returns, isValid is true exactly when
\* errors is empty.
C22_ValidIffNoErrors ==
    (fs.op = "validateData" /\ ~fs.out.threw) =>
        (fs.out.isValid <=> fs.out.errors = <<>>)

C22_Witness ==
    /\ fs.op = "validateData"
    /\ ~fs.out.threw
    /\ ~fs.out.isValid
    /\ Len(fs.out.errors) = 1
    /\ fs.out.errors[1].kind = "inconsistentRows"

\* C23: for a table with no data rows validateData returns isValid = false
\* with at least one error.
C23_NoRowsIsInvalid ==
    (fs.op = "validateData" /\ Len(fs.data.rows) = 0) =>
        /\ ~fs.out.threw
        /\ ~fs.out.isValid
        /\ Len(fs.out.errors) >= 1

\* C24: with k >= 1 rows of a length other than headers.length validateData
\* reports exactly one row-length error, citing k; with k = 0 it reports none.
C24_OneRowLengthErrorCitingCount ==
    fs.op = "validateData" =>
        LET k == Cardinality(OffendingRows(fs.data))
            rowErrors == SelectSeq(fs.out.errors, LAMBDA e : e.kind = "inconsistentRows")
        IN  IF k >= 1
            THEN Len(rowErrors) = 1 /\ rowErrors[1].count = k
            ELSE rowErrors = <<>>

----------------------------------------------------------------------------
(* Properties of ProductMapper *)

KeyAliases == {"code", "product_code", "sku"}

PopulatedCell(v) == (v.t = "str" /\ v.s # <<>>) \/ v.t = "num"

\* Row k of the table has a populated cell in a natural-key alias column.
HasKey(table, k) ==
    \E f \in KeyAliases :
        /\ ColumnOf(table.headers, f) # 0
        /\ PopulatedCell(At(table.rows[k], ColumnOf(table.headers, f)))

PriceCell(table, k) == At(table.rows[k], ColumnOf(table.headers, "price"))

\* The row of the table the j-th accepted record was mapped from.
AcceptedRow(table, j) ==
    CHOOSE k \in 1..Len(table.rows) :
        /\ HasKey(table, k)
        /\ Cardinality({i \in 1..k : HasKey(table, i)}) = j

Mapped(rec) == \E i \in 1..Len(rec.visited) : rec.visited[i] = "ResolvingDuplicates"

PriceCsv == <<"p","r","i","c","e",".","c","s","v">>

----------------------------------------------------------------------------
(* Properties of insertProducts *)

\* A field is populated unless it is absent or the empty text.
Populated(v) == ~(v.t = "undef" \/ (v.t = "str" /\ v.s = <<>>))

\* C27: the natural key written for a record is its first populated field in
\* the order code, product_code, sku, and is absent only when none is.
C27_FirstPopulatedAlias ==
    (call.op = "insertProducts" /\ call.issued # <<>>) =>
        \A k \in 1..Len(call.products) :
            LET p == call.products[k]
                written == call.issued[1].params[k].product_code
            IN  IF Populated(p["code"]) THEN written = p["code"]
                ELSE IF Populated(p["product_code"]) THEN written = p["product_code"]
                ELSE IF Populated(p["sku"]) THEN written = p["sku"]
                ELSE ~Populated(written)

\* C28: when the store write succeeds, the inserted count insertProducts
\* reports is the number of records passed to it.
C28_InsertedCountIsBatchSize ==
    (call.op = "insertProducts" /\ call.result.success /\ Len(call.products) >= 1) =>
        call.result.affectedRows = Num(Len(call.products))

----------------------------------------------------------------------------
(* Properties of processFile *)

BlankText(text) == \A i \in 1..Len(text) : IsSpace(text[i])

ParseErrors == {"Failed to process CSV file", "Failed to process text file",
                "Failed to read file"}

\* C29: a processFile call ends in a complete table or in an error, never in
\* both or in a part of a table; a comma-delimited or generic-delimited input
\* without a non-blank line ends in a parse error.
C29_AllOrNothing ==
    fs.op = "processFile" =>
        /\ fs.res.ok =>
              /\ fs.res.error = "none"
              /\ fs.res.data.fileName = fs.file.name
              /\ fs.res.data.fileType \in {"excel", "csv", "text"}
              /\ fs.res.data.totalRows = Len(fs.res.data.rows)
        /\ ~fs.res.ok => (fs.res.data = NoData /\ fs.res.error # "none")
        /\ (ExpectedPath(fs.file.name) \in {"csv", "text"} /\ BlankText(fs.file.text)) =>
              (~fs.res.ok /\ fs.res.error \in ParseErrors)

C29_Witness ==
    /\ fs.op = "processFile"
    /\ ExpectedPath(fs.file.name) = "csv"
    /\ BlankText(fs.file.text)
    /\ ~fs.readFails
    /\ fs.res.error = "Failed to process CSV file"

----------------------------------------------------------------------------
(* HTTP server: POST /api/database/query and GET /api/health *)

\* connection.release() is the statement after execute: it runs only when
\* execute did not throw.
Released(outcome) == outcome = "ok"

\* A request arrives and its handler calls pool.getConnection().
Arrive(q, kind) ==
    /\ server.req[q].stage \in {"idle", "done"}
    /\ server' = [server EXCEPT !.req[q] =
                     [IdleRequest EXCEPT !.kind = kind, !.stage = "acquiring"]]
    /\ UNCHANGED <<backend, store, queries, run, call, fs>>

\* getConnection answers when the pool has a connection to give: with a
\* connection, or with an error when the store cannot be reached.  With
\* PoolLimit connections checked out the request stays queued.
Acquire(q, connectFails) ==
    /\ server.req[q].stage = "acquiring"
    /\ server.held < PoolLimit
    /\ server' =
          IF ~connectFails
          THEN [server EXCEPT !.held = @ + 1, !.req[q].stage = "executing"]
          ELSE IF server.req[q].kind = "query"
          THEN [server EXCEPT !.req[q].stage = "done", !.req[q].response = "500"]
          ELSE [server EXCEPT !.req[q].stage = "probingOllama",
                              !.req[q].dbUp = FALSE,
                              !.req[q].report.database = "disconnected",
                              !.req[q].report.status = "degraded"]
    /\ UNCHANGED <<backend, store, queries, run, call, fs>>

\* connection.execute returns ("ok"), throws a query error on a connection
\* that stays open ("sqlError"), or throws because the connection was lost
\* ("connectionLost": the pool drops the connection).
Execute(q, outcome) ==
    /\ server.req[q].stage = "executing"
    /\ LET held == IF Released(outcome) \/ outcome = "connectionLost"
                   THEN server.held - 1 ELSE server.held
           leaked == IF Released(outcome) \/ outcome = "connectionLost"
                     THEN server.leaked ELSE server.leaked + 1
       IN  server' =
              IF server.req[q].kind = "query"
              THEN [server EXCEPT !.held = held, !.leaked = leaked,
                                  !.req[q].stage = "done",
                                  !.req[q].dbUp = (outcome = "ok"),
                                  !.req[q].response =
                                      IF outcome = "ok" THEN "200" ELSE "500"]
              ELSE [server EXCEPT !.held = held, !.leaked = leaked,
                                  !.req[q].stage = "probingOllama",
                                  !.req[q].dbUp = (outcome = "ok"),
                                  !.req[q].report.database =
                                      IF outcome = "ok" THEN "connected"
                                      ELSE "disconnected",
                                  !.req[q].report.status =
                                      IF outcome = "ok" THEN "ok" ELSE "degraded"]
    /\ UNCHANGED <<backend, store, queries, run, call, fs>>

\* The second probe of the health handler and its res.json(health).
ProbeOllama(q, up) ==
    /\ server.req[q].stage = "probingOllama"
    /\ server' = [server EXCEPT
                     !.req[q].stage = "done",
                     !.req[q].ollamaUp = up,
                     !.req[q].response = "200",
                     !.req[q].report.ollama =
                         IF up THEN "connected" ELSE "disconnected",
                     !.req[q].report.status =
                         IF up THEN (IF @ = "none" THEN "ok" ELSE @) ELSE "degraded"]
    /\ UNCHANGED <<backend, store, queries, run, call, fs>>

NextServer ==
    \/ \E q \in Requests, kind \in {"query", "health"} : Arrive(q, kind)
    \/ \E q \in Requests, connectFails \in BOOLEAN : Acquire(q, connectFails)
    \/ \E q \in Requests, outcome \in {"ok", "sqlError", "connectionLost"} :
          Execute(q, outcome)
    \/ \E q \in Requests, up \in BOOLEAN : ProbeOllama(q, up)

SpecServer == Init /\ [][NextServer]_vars

----------------------------------------------------------------------------
(* Properties of the HTTP server *)

\* C26: a health report gives the store's and the text-generation service's
\* reachability, each as its own probe found it, with status degraded exactly
\* when one of them is unreachable; a health request always completes with a
\* report: it never answers a failure and is never left waiting for good.
C26_HealthAlwaysReports ==
    \A q \in Requests :
        server.req[q].kind = "health" =>
            /\ server.req[q].stage = "done" =>
                  /\ server.req[q].response = "200"
                  /\ server.req[q].report.database =
                        IF server.req[q].dbUp THEN "connected" ELSE "disconnected"
                  /\ server.req[q].report.ollama =
                        IF server.req[q].ollamaUp THEN "connected" ELSE "disconnected"
                  /\ server.req[q].report.status =
                        IF server.req[q].dbUp /\ server.req[q].ollamaUp
                        THEN "ok" ELSE "degraded"
            /\ ~(server.req[q].stage = "acquiring" /\ server.leaked = PoolLimit)

\* C30: every connection checked out of the pool is in the hands of a handler
\* that is still running, so none stays checked out after its request ended.
C30_EveryConnectionReleased ==
    server.held = Cardinality({q \in Requests : server.req[q].stage = "executing"})

====
